---------------------------- MODULE Spec2Model ----------------------------
(***************************************************************************)
(* A model of the EKG simulator: the physiological-state dictionary, the   *)
(* rule chain of PhysiologicalEffectsManager.update_ekg_parameters, the     *)
(* tick EKGSimulator._generate_new_data_segment with its scripted scenario, *)
(* the shaping done by WaveformGenerator.get_ekg_segment and the rolling    *)
(* signal buffer.                                                           *)
(*                                                                         *)
(* Units.  Python floats are modelled by exact scaled integers:            *)
(*   blood_volume_percent            in 1/20 percent   (100 %  -> 2000)     *)
(*   serum_k_meq_l, serum_ca_mg_dl   in 1/10           (4.0    -> 40)       *)
(*   core_body_temperature_celsius   in 1/10 degree    (37.0   -> 370)      *)
(*   st_depression_mv, st_elevation  in 1/100 mV       (0.2    -> 20)       *)
(*   qrs / t_wave amplitude factors  in 1/10           (1.0    -> 10)       *)
(*   total_simulation_time_seconds   in 1/10 second    (ticks)              *)
(*   samples                         in 1/1000000 mV                        *)
(* The scaling is exact for every literal of the source; the binary        *)
(* rounding drift of the repeated "+= 0.1" and "-= 0.05" is not modelled.   *)
(***************************************************************************)
EXTENDS Integers, Sequences, FiniteSets, TLC

VARIABLES
    physiological_state,            \* EKGSimulator.physiological_state (dict)
    total_simulation_time_seconds,  \* elapsed simulated time, in ticks of 0.1 s
    current_ekg_data,               \* the signal buffer
    display_seconds,                \* plotter.display_seconds
    max_buffer_duration_seconds,    \* EKGSimulator.max_buffer_duration_seconds
    initialized,                    \* initialize_simulation has run
    resolve_input,                  \* the dictionary the tick just ended passed to the resolver
    target_ekg_params,              \* that call's outcome: the returned dict or the raised error
    last_call,                      \* the latest operation and how it ended
    setter_calls,                   \* setter calls made so far by the external controller
    appended_samples                \* every sample put into the buffer so far, oldest first

vars == <<physiological_state, total_simulation_time_seconds, current_ekg_data,
          display_seconds, max_buffer_duration_seconds, initialized,
          resolve_input, target_ekg_params, last_call, setter_calls,
          appended_samples>>

---------------------------------------------------------------------------
(* Bounds of the model *)

\* ticks a behaviour of Spec may take
MaxTicks == 3
\* setter calls the external controller may make in a behaviour of Spec
MaxSetterCalls == 2
\* setter calls the external controller may make in a behaviour of SpecConditions
MaxConditionSetterCalls == 4
\* ticks a behaviour of SpecScenario may take: past the last threshold of the
\* script, 170 s
MaxScenarioTicks == 1710
\* ticks a behaviour of SpecBuffer may take: one more than fill the smallest buffer
MaxBufferTicks == 11

---------------------------------------------------------------------------
(* Program constants *)

sampling_rate == 100
simulation_time_step_tenths == 1
baseline_qrs_amplitude_factor == 10
ketamine_effect_hr_increase == 20
morphine_effect_hr_decrease == 15

\* p percent as a blood_volume_percent value
Percent(p) == p * 20

Max(a, b) == IF a >= b THEN a ELSE b
Min(a, b) == IF a <= b THEN a ELSE b

\* dict.get(key, default)
Get(s, k, d) == IF k \in DOMAIN s THEN s[k] ELSE d

\* int(round(x)) for x = h2 / 2 >= 0: Python rounds halves to the even integer
RoundHalfEven(h2) ==
    LET q == h2 \div 2
    IN  IF h2 % 2 = 0 THEN q
        ELSE IF q % 2 = 0 THEN q ELSE q + 1

\* the dictionary built by EKGSimulator.__init__
InitialPhysiologicalState ==
    [ blood_volume_percent          |-> Percent(100),
      heart_rate_bpm                |-> 70,
      st_depression_mv              |-> 0,
      tension_pneumothorax_present  |-> FALSE,
      qrs_amplitude_factor          |-> 10,
      tbi_present                   |-> FALSE,
      icp_mmhg                      |-> 10,
      t_wave_amplitude_factor       |-> 10,
      qt_duration_ms                |-> 440,
      blast_injury_present          |-> FALSE,
      coronary_age_suspected        |-> FALSE,
      st_elevation_mv               |-> 0,
      serum_k_meq_l                 |-> 40,
      pr_interval_ms                |-> 160,
      qrs_duration_ms               |-> 100,
      serum_ca_mg_dl                |-> 95,
      core_body_temperature_celsius |-> 370,
      osborn_wave_present           |-> FALSE,
      ketamine_active               |-> FALSE,
      morphine_active               |-> FALSE ]

---------------------------------------------------------------------------
(* PhysiologicalEffectsManager.update_ekg_parameters, rule by rule.  Each   *)
(* rule takes the state dictionary s and the record p of the locals bound   *)
(* so far.  p.raised names the exception a rule raised.                     *)

\* Hypovolemic shock.  Tiers II-IV multiply base_heart_rate, a name that is
\* bound nowhere: evaluating it raises NameError before any random draw.
\* The heart rate is kept doubled (target_heart_rate_x2) until it is rounded.
HypovolemicShock(s) ==
    LET blood_volume_percent == Get(s, "blood_volume_percent", Percent(100))
        current_heart_rate   == Get(s, "heart_rate_bpm", 70)
        p == [ raised                      |-> "none",
               current_heart_rate          |-> current_heart_rate,
               target_heart_rate_x2        |-> 2 * current_heart_rate,
               target_st_depression_mv     |-> Get(s, "st_depression_mv", 0),
               target_qrs_amplitude_factor |-> baseline_qrs_amplitude_factor ]
    IN  IF blood_volume_percent > Percent(90) THEN p
        ELSE IF Percent(75) <= blood_volume_percent /\ blood_volume_percent <= Percent(90)
             THEN [p EXCEPT !.raised = "NameError"]
        ELSE IF Percent(60) <= blood_volume_percent /\ blood_volume_percent < Percent(75)
             THEN [p EXCEPT !.raised = "NameError"]
        ELSE IF blood_volume_percent < Percent(60)
             THEN [p EXCEPT !.raised = "NameError"]
        ELSE p

\* Tension pneumothorax: max(target, current * 1.5, 120) and low voltage
TensionPneumothorax(s, p) ==
    IF Get(s, "tension_pneumothorax_present", FALSE)
    THEN LET pneumo_hr_effect_x2 == p.current_heart_rate * 3
         IN  [p EXCEPT !.target_heart_rate_x2 =
                           Max(Max(@, pneumo_hr_effect_x2), 2 * 120),
                       !.target_qrs_amplitude_factor = 5]
    ELSE [p EXCEPT !.target_qrs_amplitude_factor = baseline_qrs_amplitude_factor]

\* int(round(target_heart_rate)), then the cap at 220
RoundAndCap(p) ==
    [ raised                      |-> p.raised,
      target_heart_rate           |-> Min(RoundHalfEven(p.target_heart_rate_x2), 220),
      target_st_depression_mv     |-> p.target_st_depression_mv,
      target_qrs_amplitude_factor |-> p.target_qrs_amplitude_factor ]

BlastWithAge(s) ==
    Get(s, "blast_injury_present", FALSE) /\ Get(s, "coronary_age_suspected", FALSE)

\* TBI with raised ICP (Cushing reflex)
TbiIcp(s, p) ==
    LET q == p @@ [ target_t_wave_amplitude_factor |-> Get(s, "t_wave_amplitude_factor", 10),
                    target_qt_duration_ms          |-> Get(s, "qt_duration_ms", 440),
                    target_st_elevation_mv         |-> Get(s, "st_elevation_mv", 0) ]
    IN  IF Get(s, "tbi_present", FALSE) /\ Get(s, "icp_mmhg", 10) > 20
        THEN [q EXCEPT !.target_heart_rate = Max(40, Min(@, 55)),
                       !.target_t_wave_amplitude_factor = 20,
                       !.target_qt_duration_ms = 500]
        ELSE IF ~BlastWithAge(s)
             THEN [q EXCEPT !.target_t_wave_amplitude_factor = 10,
                            !.target_qt_duration_ms = Get(s, "qt_duration_ms", 440)]
             ELSE q

\* Blast injury with suspected coronary air/gas embolism
BlastInjury(s, p) ==
    IF BlastWithAge(s)
    THEN [p EXCEPT !.target_heart_rate = Max(@, 110),
                   !.target_st_elevation_mv = 20,
                   !.target_st_depression_mv = 0]
    ELSE [p EXCEPT !.target_st_elevation_mv = 0]

\* Hyperkalemia: the three "if"s run in sequence; then the cap at 220.
\* The intervals go to the locals target_pr_ms and target_qrs_ms.
Hyperkalemia(s, p) ==
    LET serum_k == Get(s, "serum_k_meq_l", 40)
        q0 == p @@ [ target_pr_ms  |-> Get(s, "pr_interval_ms", 160),
                     target_qrs_ms |-> Get(s, "qrs_duration_ms", 100) ]
        q1 == IF serum_k > 55
              THEN [q0 EXCEPT !.target_t_wave_amplitude_factor = Max(@, 15)]
              ELSE q0
        q2 == IF serum_k > 65
              THEN [q1 EXCEPT !.target_t_wave_amplitude_factor = Max(@, 20),
                              !.target_pr_ms = 240,
                              !.target_qrs_ms = 120,
                              !.target_heart_rate = Min(@, 70)]
              ELSE q1
        q3 == IF serum_k > 75
              THEN [q2 EXCEPT !.target_t_wave_amplitude_factor = Max(@, 25),
                              !.target_pr_ms = 300,
                              !.target_qrs_ms = 160,
                              !.target_heart_rate = Min(@, 60)]
              ELSE q2
    IN  [q3 EXCEPT !.target_heart_rate = Min(@, 220)]

\* Hypocalcemia: the max is taken with the state's qt_duration_ms
Hypocalcemia(s, p) ==
    LET serum_ca_mg_dl == Get(s, "serum_ca_mg_dl", 95)
        current_qt_target_from_state == Get(s, "qt_duration_ms", 440)
    IN  IF serum_ca_mg_dl < 70
        THEN [p EXCEPT !.target_qt_duration_ms = Max(current_qt_target_from_state, 520)]
        ELSE IF serum_ca_mg_dl < 85
        THEN [p EXCEPT !.target_qt_duration_ms = Max(current_qt_target_from_state, 480)]
        ELSE p

\* Hypothermia: the only place that binds target_pr_interval_ms and
\* target_qrs_duration_ms; p.bound tells whether they were bound.
Hypothermia(s, p) ==
    LET temp_c == Get(s, "core_body_temperature_celsius", 370)
        current_qt_from_state  == Get(s, "qt_duration_ms", 440)
        current_pr_from_state  == Get(s, "pr_interval_ms", 160)
        current_qrs_from_state == Get(s, "qrs_duration_ms", 100)
        q0 == p @@ [ target_osborn_wave_present |-> FALSE,
                     bound                      |-> FALSE,
                     target_pr_interval_ms      |-> 0,
                     target_qrs_duration_ms     |-> 0 ]
        Tier(q, hr, pr, qrs, qt) ==
            [q EXCEPT !.target_heart_rate = Min(@, hr),
                      !.target_osborn_wave_present = TRUE,
                      !.bound = TRUE,
                      !.target_pr_interval_ms = Max(current_pr_from_state, pr),
                      !.target_qrs_duration_ms = Max(current_qrs_from_state, qrs),
                      !.target_qt_duration_ms = Max(current_qt_from_state, qt)]
        q1 == IF temp_c < 350 THEN Tier(q0, 60, 220, 110, 480) ELSE q0
        q2 == IF temp_c < 320 THEN Tier(q1, 50, 240, 120, 500) ELSE q1
        q3 == IF temp_c < 280 THEN Tier(q2, 40, 280, 140, 550) ELSE q2
    IN  q3

\* a variant of the drug step in which ketamine raises the rate twice as much
DrugEffects_StrongerKetamine(s, p) ==
    LET k == IF Get(s, "ketamine_active", FALSE)
             THEN p.target_heart_rate + 2 * ketamine_effect_hr_increase
             ELSE p.target_heart_rate
        m == IF Get(s, "morphine_active", FALSE)
             THEN k - morphine_effect_hr_decrease
             ELSE k
    IN  [p EXCEPT !.target_heart_rate = Max(30, Min(m, 250))]

\* Drug effects and the final clamp to [30, 250]
DrugEffects(s, p) ==
    LET k == IF Get(s, "ketamine_active", FALSE)
             THEN p.target_heart_rate + ketamine_effect_hr_increase
             ELSE p.target_heart_rate
        m == IF Get(s, "morphine_active", FALSE)
             THEN k - morphine_effect_hr_decrease
             ELSE k
    IN  [p EXCEPT !.target_heart_rate = Max(30, Min(m, 250))]

\* the locals as the rules before hypocalcemia leave them, for a dictionary
\* on which the shock tier does not raise
BeforeHypocalcemia(s) ==
    Hyperkalemia(s, BlastInjury(s, TbiIcp(s, RoundAndCap(
        TensionPneumothorax(s, HypovolemicShock(s))))))

\* the locals as the rules before hypothermia leave them, for a dictionary
\* on which the shock tier does not raise
BeforeHypothermia(s) ==
    Hypocalcemia(s, BeforeHypocalcemia(s))

\* the locals as they stand just before the drug step (raised # "none" when
\* the shock tier raised)
BeforeDrugs(s) ==
    LET p1 == HypovolemicShock(s)
    IN  IF p1.raised # "none" THEN p1
        ELSE Hypothermia(s, Hypocalcemia(s, Hyperkalemia(s, BlastInjury(s,
                 TbiIcp(s, RoundAndCap(TensionPneumothorax(s, p1)))))))

\* The whole call.  The outcome is either the returned dictionary (raised =
\* "none") or the exception: NameError from the shock tiers, UnboundLocalError
\* from the return statement, which reads target_pr_interval_ms and
\* target_qrs_duration_ms although only the hypothermia tiers bind them.
update_ekg_parameters(s) ==
    LET b == BeforeDrugs(s)
    IN  IF b.raised # "none" THEN [raised |-> b.raised]
        ELSE LET p == DrugEffects(s, b)
             IN  IF ~p.bound THEN [raised |-> "UnboundLocalError"]
                 ELSE [ raised                         |-> "none",
                        target_heart_rate              |-> p.target_heart_rate,
                        target_st_depression_mv        |-> p.target_st_depression_mv,
                        target_qrs_amplitude_factor    |-> p.target_qrs_amplitude_factor,
                        target_t_wave_amplitude_factor |-> p.target_t_wave_amplitude_factor,
                        target_qt_duration_ms          |-> p.target_qt_duration_ms,
                        target_st_elevation_mv         |-> p.target_st_elevation_mv,
                        target_pr_interval_ms          |-> p.target_pr_interval_ms,
                        target_qrs_duration_ms         |-> p.target_qrs_duration_ms,
                        target_osborn_wave_present     |-> p.target_osborn_wave_present ]

\* a variant of the call that stores a value in the dictionary it is given
StateAfterUpdate_WritesHeartRate(s) ==
    [s EXCEPT !.heart_rate_bpm = 0]

\* The dictionary after the call.  The function reads physiological_state
\* through .get only and assigns to locals only, so the dictionary it was
\* handed is the one it leaves, whether it returns or raises.
StateAfterUpdate(s) ==
    s

---------------------------------------------------------------------------
(* WaveformGenerator.get_ekg_segment *)

\* number of samples of a segment of duration tenths / 10 seconds
NumSamples(tenths) == (tenths * sampling_rate) \div 10

\* The raw waveforms nk.ecg_simulate may return for n samples, in 1/1000 mV:
\* an external routine, modelled by a ramp of either sign within [-1, 1] mV.
RawSlopes == {-100, 100}
RawSegment(slope, n) == [i \in 1..n |-> slope * (((i - 1) % 10) + 1)]

\* a variant of the shaping that adds the ST offset before the scaling
ShapeSample_OffsetFirst(raw, st_depression_mv, st_elevation_mv, qrs_amplitude_factor, t_wave_amplitude_factor) ==
    LET offset == IF st_elevation_mv > 0 THEN st_elevation_mv * 10
                  ELSE IF st_depression_mv > 0 THEN 0 - st_depression_mv * 10
                  ELSE 0
    IN  (raw + offset) * qrs_amplitude_factor * (100 + (t_wave_amplitude_factor - 10))

\* The shaping of one raw sample; the result is in 1/1000000 mV.
ShapeSample(raw, st_depression_mv, st_elevation_mv, qrs_amplitude_factor, t_wave_amplitude_factor) ==
    LET a == IF qrs_amplitude_factor # 10 THEN raw * qrs_amplitude_factor ELSE raw * 10
        simplified_t_wave_scaling == 100 + (t_wave_amplitude_factor - 10)
        b == IF t_wave_amplitude_factor # 10 /\ simplified_t_wave_scaling # 100
             THEN a * simplified_t_wave_scaling ELSE a * 100
    IN  IF st_elevation_mv > 0 THEN b + st_elevation_mv * 10000
        ELSE IF st_depression_mv > 0 THEN b - st_depression_mv * 10000
        ELSE b

\* get_ekg_segment applied to the raw waveform raw; the interval targets and
\* the Osborn flag are accepted and ignored
get_ekg_segment(raw, st_depression_mv, st_elevation_mv, qrs_amplitude_factor, t_wave_amplitude_factor) ==
    [i \in 1..Len(raw) |-> ShapeSample(raw[i], st_depression_mv, st_elevation_mv,
                                       qrs_amplitude_factor, t_wave_amplitude_factor)]

---------------------------------------------------------------------------
(* The setters of EKGSimulator, as functions on the state dictionary *)

\* a variant of the setter that stores the argument as given
set_blood_volume_percentage_Unclipped(s, percentage) ==
    [s EXCEPT !.blood_volume_percent = Percent(percentage)]

\* np.clip(percentage, 0, 100), percentage in percent
set_blood_volume_percentage(s, percentage) ==
    [s EXCEPT !.blood_volume_percent = Percent(Max(0, Min(percentage, 100)))]

set_tension_pneumothorax(s, present) ==
    [s EXCEPT !.tension_pneumothorax_present = present]

set_tbi(s, present, icp) ==
    [s EXCEPT !.tbi_present = present, !.icp_mmhg = icp]

set_blast_injury(s, present, suspect_age) ==
    [s EXCEPT !.blast_injury_present = present, !.coronary_age_suspected = suspect_age]

set_serum_potassium(s, k_level) == [s EXCEPT !.serum_k_meq_l = k_level]

set_serum_calcium(s, ca_level) == [s EXCEPT !.serum_ca_mg_dl = ca_level]

set_core_body_temperature(s, temp_celsius) ==
    [s EXCEPT !.core_body_temperature_celsius = temp_celsius]

administer_ketamine(s, active) == [s EXCEPT !.ketamine_active = active]

administer_morphine(s, active) == [s EXCEPT !.morphine_active = active]

---------------------------------------------------------------------------
(* EKGSimulator._generate_new_data_segment *)

\* "Simulate gradual blood loss": 0.05 % per tick while above 40 %
BloodLoss(s) ==
    IF s.blood_volume_percent > Percent(40)
    THEN [s EXCEPT !.blood_volume_percent = @ - 1]
    ELSE s

\* total_simulation_time_seconds > seconds
Elapsed(t, seconds) == t > seconds * 10

NoMajorCondition(s) ==
    /\ ~s.blast_injury_present
    /\ ~s.tbi_present
    /\ ~s.tension_pneumothorax_present

\* The scripted scenario, one operator per "if" of the tick, at time t.

ScriptPneumothorax(s, t) ==
    IF Elapsed(t, 15) /\ ~s.tension_pneumothorax_present /\ ~s.tbi_present
    THEN set_tension_pneumothorax(s, TRUE) ELSE s

\* a variant of the step that does not look at the pneumothorax flag
ScriptTbi_IgnoresPneumothorax(s, t) ==
    IF Elapsed(t, 30) /\ ~s.tbi_present /\ ~s.blast_injury_present
    THEN set_tbi(s, TRUE, 30) ELSE s

ScriptTbi(s, t) ==
    IF Elapsed(t, 30) /\ ~s.tbi_present /\ ~s.tension_pneumothorax_present
       /\ ~s.blast_injury_present
    THEN set_tbi(s, TRUE, 30) ELSE s

ScriptBlastInjury(s, t) ==
    IF Elapsed(t, 45) /\ ~s.blast_injury_present /\ ~s.tbi_present
       /\ ~s.tension_pneumothorax_present
    THEN set_blast_injury(s, TRUE, TRUE) ELSE s

ScriptHyperkalemia(s, t) ==
    IF Elapsed(t, 60) /\ s.serum_k_meq_l < 50 /\ NoMajorCondition(s)
    THEN set_serum_potassium(s, 68)
    ELSE IF Elapsed(t, 75) /\ s.serum_k_meq_l < 75 /\ NoMajorCondition(s)
    THEN set_serum_potassium(s, 80) ELSE s

ScriptHypocalcemia(s, t) ==
    IF Elapsed(t, 90) /\ s.serum_ca_mg_dl > 80 /\ NoMajorCondition(s)
       /\ s.serum_k_meq_l < 50
    THEN set_serum_calcium(s, 80)
    ELSE IF Elapsed(t, 105) /\ s.serum_ca_mg_dl > 65 /\ NoMajorCondition(s)
            /\ s.serum_k_meq_l < 50
    THEN set_serum_calcium(s, 65) ELSE s

ScriptHypothermia(s, t) ==
    IF Elapsed(t, 120) /\ s.core_body_temperature_celsius > 340
       /\ NoMajorCondition(s) /\ s.serum_k_meq_l < 50 /\ s.serum_ca_mg_dl > 85
    THEN set_core_body_temperature(s, 340)
    ELSE IF Elapsed(t, 135) /\ s.core_body_temperature_celsius > 310
            /\ NoMajorCondition(s) /\ s.serum_k_meq_l < 50 /\ s.serum_ca_mg_dl > 85
    THEN set_core_body_temperature(s, 310) ELSE s

ScriptKetamine(s, t) ==
    IF Elapsed(t, 150) /\ ~s.ketamine_active /\ ~s.morphine_active
       /\ NoMajorCondition(s)
    THEN administer_ketamine(s, TRUE) ELSE s

ScriptClearKetamine(s, t) ==
    IF Elapsed(t, 165) /\ s.ketamine_active
    THEN administer_ketamine(s, FALSE) ELSE s

ScriptMorphine(s, t) ==
    IF Elapsed(t, 170) /\ ~s.morphine_active /\ ~s.ketamine_active
       /\ NoMajorCondition(s)
    THEN administer_morphine(s, TRUE) ELSE s

\* The "if"s run in sequence, each reading the dictionary as the earlier ones
\* left it.  Every set below has one element: the dictionary after that step.
ScenarioDriver(s, t) ==
    CHOOSE out \in
        { ScriptMorphine(h, t) : h \in
        { ScriptClearKetamine(g, t) : g \in
        { ScriptKetamine(f, t) : f \in
        { ScriptHypothermia(e, t) : e \in
        { ScriptHypocalcemia(d, t) : d \in
        { ScriptHyperkalemia(c, t) : c \in
        { ScriptBlastInjury(b, t) : b \in
        { ScriptTbi(a, t) : a \in
        { ScriptPneumothorax(s, t) } } } } } } } } } : TRUE

\* WriteBack without the assignment to heart_rate_bpm
WriteBack_KeepsHeartRate(s, r) ==
    [s EXCEPT !.st_depression_mv        = r.target_st_depression_mv,
              !.st_elevation_mv         = r.target_st_elevation_mv,
              !.qrs_amplitude_factor    = r.target_qrs_amplitude_factor,
              !.t_wave_amplitude_factor = r.target_t_wave_amplitude_factor,
              !.qt_duration_ms          = r.target_qt_duration_ms,
              !.pr_interval_ms          = r.target_pr_interval_ms,
              !.qrs_duration_ms         = r.target_qrs_duration_ms,
              !.osborn_wave_present     = r.target_osborn_wave_present]

\* the nine assignments that copy the resolved targets into the dictionary
WriteBack(s, r) ==
    [s EXCEPT !.heart_rate_bpm          = r.target_heart_rate,
              !.st_depression_mv        = r.target_st_depression_mv,
              !.st_elevation_mv         = r.target_st_elevation_mv,
              !.qrs_amplitude_factor    = r.target_qrs_amplitude_factor,
              !.t_wave_amplitude_factor = r.target_t_wave_amplitude_factor,
              !.qt_duration_ms          = r.target_qt_duration_ms,
              !.pr_interval_ms          = r.target_pr_interval_ms,
              !.qrs_duration_ms         = r.target_qrs_duration_ms,
              !.osborn_wave_present     = r.target_osborn_wave_present]

\* a variant of the trimming that keeps the oldest samples
AppendAndTrim_KeepsOldest(buf, seg, max_seconds) ==
    LET all == buf \o seg
        max_buffer_points == max_seconds * sampling_rate
    IN  IF Len(all) > max_buffer_points
        THEN SubSeq(all, 1, max_buffer_points)
        ELSE all

\* concatenate, then keep the newest max_buffer_points samples
AppendAndTrim(buf, seg, max_seconds) ==
    LET all == buf \o seg
        max_buffer_points == max_seconds * sampling_rate
    IN  IF Len(all) > max_buffer_points
        THEN SubSeq(all, Len(all) - max_buffer_points + 1, Len(all))
        ELSE all

\* what the external waveform routine may do when called
GeneratorOutcomes == {"ok", "GenerationError"}

\* the segment a tick appends: the raw waveform shaped by the written-back fields
NewSegment(slope, s) ==
    get_ekg_segment(RawSegment(slope, NumSamples(simulation_time_step_tenths)),
                    s.st_depression_mv, s.st_elevation_mv,
                    s.qrs_amplitude_factor, s.t_wave_amplitude_factor)

\* One tick, allowed while fewer than cap ticks have run.  An exception of the
\* resolver or of the generator ends the tick where it is raised.
\*   t1  the advanced time
\*   s2  the dictionary after the blood loss and the scenario script
\*   r   the outcome of update_ekg_parameters(s2)
TickUpTo(cap) ==
    /\ total_simulation_time_seconds < cap
    /\ \E t1 \in {total_simulation_time_seconds + simulation_time_step_tenths} :
       \E s2 \in {ScenarioDriver(BloodLoss(physiological_state), t1)} :
       \E r \in {update_ekg_parameters(s2)} :
           /\ total_simulation_time_seconds' = t1
           /\ resolve_input' = s2
           /\ target_ekg_params' = r
           /\ IF r.raised # "none"
              THEN /\ physiological_state' = StateAfterUpdate(s2)
                   /\ current_ekg_data' = current_ekg_data
                   /\ appended_samples' = appended_samples
                   /\ last_call' = <<"tick", r.raised>>
              ELSE \E s3 \in {WriteBack(StateAfterUpdate(s2), r)} :
                       /\ physiological_state' = s3
                       /\ \E outcome \in GeneratorOutcomes, slope \in RawSlopes :
                            IF outcome = "ok"
                            THEN \E seg \in {NewSegment(slope, s3)} :
                                 /\ current_ekg_data' =
                                      AppendAndTrim(current_ekg_data, seg,
                                                    max_buffer_duration_seconds)
                                 /\ appended_samples' = appended_samples \o seg
                                 /\ last_call' = <<"tick", "ok">>
                            ELSE /\ current_ekg_data' = current_ekg_data
                                 /\ appended_samples' = appended_samples
                                 /\ last_call' = <<"tick", outcome>>
    /\ UNCHANGED <<display_seconds, max_buffer_duration_seconds, initialized,
                   setter_calls>>

Tick == TickUpTo(MaxTicks)

\* the Python slice seq[-n:] for 0 <= n <= Len(seq): the last n elements,
\* except that -0 is 0 and seq[0:] is the whole sequence
SliceFromMinus(seq, n) ==
    IF n = 0 THEN seq ELSE SubSeq(seq, Len(seq) - n + 1, Len(seq))

\* what get_latest_ekg_data returns after its tick: the part of the buffer
\* handed to the plotter
LatestEkgData(buf, seconds) ==
    LET num_points_to_display == seconds * sampling_rate
    IN  IF Len(buf) < num_points_to_display
        THEN buf
        ELSE SliceFromMinus(buf, num_points_to_display)

---------------------------------------------------------------------------
(* EKGSimulator.initialize_simulation, called once by run_simulation *)

DisplaySecondsInputs == {0, 1}

NotCalled == [raised |-> "not called"]

InitializeSimulation ==
    /\ ~initialized
    /\ total_simulation_time_seconds = 0
    /\ initialized' = TRUE
    /\ \E ds \in DisplaySecondsInputs :
         /\ display_seconds' = ds
         /\ max_buffer_duration_seconds' = ds + 1
         /\ IF ds > 0
            THEN \E outcome \in GeneratorOutcomes, slope \in RawSlopes :
                   IF outcome = "ok"
                   THEN /\ current_ekg_data' =
                             get_ekg_segment(RawSegment(slope, NumSamples(ds * 10)),
                                 physiological_state.st_depression_mv, 0, 10, 10)
                        /\ appended_samples' = current_ekg_data'
                        /\ last_call' = <<"initialize_simulation", "ok">>
                   ELSE /\ current_ekg_data' = current_ekg_data
                        /\ appended_samples' = appended_samples
                        /\ last_call' = <<"initialize_simulation", outcome>>
            ELSE /\ current_ekg_data' = current_ekg_data
                 /\ appended_samples' = appended_samples
                 /\ last_call' = <<"initialize_simulation", "ok">>
    /\ UNCHANGED <<physiological_state, total_simulation_time_seconds,
                   resolve_input, target_ekg_params, setter_calls>>

---------------------------------------------------------------------------
(* Calls of the setters by an external controller *)

BloodVolumeInputs == {-5, 55, 120}
IcpInputs         == {10, 30}
PotassiumInputs   == {40, 68, 80}
CalciumInputs     == {95, 80, 65}
TemperatureInputs == {370, 340, 270}

\* A setter call writes the dictionary and nothing else.  No tick is the
\* latest operation any more: resolve_input and target_ekg_params are reset.
SetterWithin(cap, s) ==
    /\ setter_calls < cap
    /\ setter_calls' = setter_calls + 1
    /\ physiological_state' = s
    /\ last_call' = <<"setter", "ok">>
    /\ resolve_input' = s
    /\ target_ekg_params' = NotCalled
    /\ UNCHANGED <<total_simulation_time_seconds, current_ekg_data, display_seconds,
                   max_buffer_duration_seconds, initialized, appended_samples>>

Setter(s) == SetterWithin(MaxSetterCalls, s)

SetBloodVolumePercentage ==
    \E percentage \in BloodVolumeInputs :
        Setter(set_blood_volume_percentage(physiological_state, percentage))

SetTensionPneumothorax ==
    \E present \in BOOLEAN :
        Setter(set_tension_pneumothorax(physiological_state, present))

SetTbiWithin(cap) ==
    \E present \in BOOLEAN, icp \in IcpInputs :
        SetterWithin(cap, set_tbi(physiological_state, present, icp))

SetTbi == SetTbiWithin(MaxSetterCalls)

SetBlastInjuryWithin(cap) ==
    \E present \in BOOLEAN, suspect_age \in BOOLEAN :
        SetterWithin(cap, set_blast_injury(physiological_state, present, suspect_age))

SetBlastInjury == SetBlastInjuryWithin(MaxSetterCalls)

SetSerumPotassium ==
    \E k_level \in PotassiumInputs :
        Setter(set_serum_potassium(physiological_state, k_level))

SetSerumCalcium ==
    \E ca_level \in CalciumInputs :
        Setter(set_serum_calcium(physiological_state, ca_level))

SetCoreBodyTemperatureWithin(cap) ==
    \E temp_celsius \in TemperatureInputs :
        SetterWithin(cap, set_core_body_temperature(physiological_state, temp_celsius))

SetCoreBodyTemperature == SetCoreBodyTemperatureWithin(MaxSetterCalls)

AdministerKetamine ==
    \E active \in BOOLEAN :
        Setter(administer_ketamine(physiological_state, active))

AdministerMorphine ==
    \E active \in BOOLEAN :
        Setter(administer_morphine(physiological_state, active))

---------------------------------------------------------------------------
(* The simulator: construction, then any interleaving of the operations *)

Init ==
    /\ physiological_state = InitialPhysiologicalState
    /\ total_simulation_time_seconds = 0
    /\ current_ekg_data = << >>
    /\ display_seconds = 10
    /\ max_buffer_duration_seconds = 11
    /\ initialized = FALSE
    /\ resolve_input = InitialPhysiologicalState
    /\ target_ekg_params = NotCalled
    /\ last_call = <<"__init__", "ok">>
    /\ setter_calls = 0
    /\ appended_samples = << >>

Next ==
    \/ InitializeSimulation
    \/ Tick
    \/ SetBloodVolumePercentage
    \/ SetTensionPneumothorax
    \/ SetTbi
    \/ SetBlastInjury
    \/ SetSerumPotassium
    \/ SetSerumCalcium
    \/ SetCoreBodyTemperature
    \/ AdministerKetamine
    \/ AdministerMorphine

Spec == Init /\ [][Next]_vars

---------------------------------------------------------------------------
(* A run driven by the scenario script alone: the simulator as constructed, *)
(* initialised or not, ticking with no setter called from outside.          *)

NextScenario ==
    \/ InitializeSimulation
    \/ TickUpTo(MaxScenarioTicks)

SpecScenario == Init /\ [][NextScenario]_vars

---------------------------------------------------------------------------
(* Conditions set and cleared again: the simulator with a controller that   *)
(* uses three of the setters only, and may therefore be followed further.   *)

NextConditions ==
    \/ SetTbiWithin(MaxConditionSetterCalls)
    \/ SetBlastInjuryWithin(MaxConditionSetterCalls)
    \/ SetCoreBodyTemperatureWithin(MaxConditionSetterCalls)
    \/ Tick

SpecConditions == Init /\ [][NextConditions]_vars

---------------------------------------------------------------------------
(* The signal buffer over a long run.  A tick appends only when the         *)
(* resolver returns, so the run starts from the simulator as constructed    *)
(* and made hypothermic by set_core_body_temperature(34.0); the display is  *)
(* initialised or not, and the ticks run until the smallest buffer          *)
(* overflows.                                                               *)

HypothermicState == set_core_body_temperature(InitialPhysiologicalState, 340)

InitBuffer ==
    /\ physiological_state = HypothermicState
    /\ total_simulation_time_seconds = 0
    /\ current_ekg_data = << >>
    /\ display_seconds = 10
    /\ max_buffer_duration_seconds = 11
    /\ initialized = FALSE
    /\ resolve_input = HypothermicState
    /\ target_ekg_params = NotCalled
    /\ last_call = <<"setter", "ok">>
    /\ setter_calls = 1
    /\ appended_samples = << >>

NextBuffer ==
    \/ InitializeSimulation
    \/ TickUpTo(MaxBufferTicks)

SpecBuffer == InitBuffer /\ [][NextBuffer]_vars

---------------------------------------------------------------------------
(* The resolver on its own: update_ekg_parameters called once on a          *)
(* dictionary drawn from ResolveInputs.                                     *)

ResolveBloodVolumes == {0, 55, 70, 80, 95, 100}
ResolveHeartRates   == {70, 230}

ResolveInputs ==
    { [InitialPhysiologicalState EXCEPT
           !.heart_rate_bpm                = hr,
           !.blood_volume_percent          = Percent(bv),
           !.tension_pneumothorax_present  = pneumo,
           !.tbi_present                   = tbi,
           !.icp_mmhg                      = icp,
           !.blast_injury_present          = blast,
           !.coronary_age_suspected        = age,
           !.serum_k_meq_l                 = k,
           !.serum_ca_mg_dl                = ca,
           !.core_body_temperature_celsius = temp,
           !.ketamine_active               = ket,
           !.morphine_active               = mor] :
        hr \in ResolveHeartRates, bv \in ResolveBloodVolumes,
        pneumo \in BOOLEAN, tbi \in BOOLEAN,
        icp \in IcpInputs, blast \in BOOLEAN, age \in BOOLEAN,
        k \in PotassiumInputs, ca \in CalciumInputs, temp \in TemperatureInputs,
        ket \in BOOLEAN, mor \in BOOLEAN }

InitResolve ==
    /\ resolve_input \in ResolveInputs
    /\ physiological_state = resolve_input
    /\ total_simulation_time_seconds = 0
    /\ current_ekg_data = << >>
    /\ display_seconds = 10
    /\ max_buffer_duration_seconds = 11
    /\ initialized = FALSE
    /\ target_ekg_params = NotCalled
    /\ last_call = <<"__init__", "ok">>
    /\ setter_calls = 0
    /\ appended_samples = << >>

Resolve ==
    /\ last_call = <<"__init__", "ok">>
    /\ target_ekg_params' = update_ekg_parameters(resolve_input)
    /\ physiological_state' = StateAfterUpdate(physiological_state)
    /\ last_call' = <<"update_ekg_parameters", target_ekg_params'.raised>>
    /\ UNCHANGED <<total_simulation_time_seconds,
                   current_ekg_data, display_seconds, max_buffer_duration_seconds,
                   initialized, resolve_input, setter_calls, appended_samples>>

NextResolve == Resolve

SpecResolve == InitResolve /\ [][NextResolve]_vars

---------------------------------------------------------------------------
(* The resolver called on a dictionary in which keys are absent *)

StateFields == DOMAIN InitialPhysiologicalState

\* the dictionary s without the keys in absent
Without(s, absent) == [k \in (DOMAIN s) \ absent |-> s[k]]

\* the keys left out of the dictionaries of PartialInputs
AbsentCandidates ==
    { "heart_rate_bpm", "blood_volume_percent", "tbi_present", "icp_mmhg",
      "blast_injury_present", "serum_k_meq_l", "serum_ca_mg_dl",
      "core_body_temperature_celsius", "qt_duration_ms", "pr_interval_ms" }

PartialBases ==
    { [InitialPhysiologicalState EXCEPT
           !.blood_volume_percent          = Percent(bv),
           !.tbi_present                   = tbi,
           !.icp_mmhg                      = IF tbi THEN 30 ELSE 10,
           !.serum_k_meq_l                 = k,
           !.core_body_temperature_celsius = temp] :
        bv \in {55, 100}, tbi \in BOOLEAN, k \in {40, 80}, temp \in {370, 340} }

PartialInputs ==
    { Without(s, absent) :
        s \in PartialBases,
        absent \in ((SUBSET AbsentCandidates) \ {{}}) \cup {StateFields} }

InitPartial ==
    /\ resolve_input \in PartialInputs
    /\ physiological_state = resolve_input
    /\ total_simulation_time_seconds = 0
    /\ current_ekg_data = << >>
    /\ display_seconds = 10
    /\ max_buffer_duration_seconds = 11
    /\ initialized = FALSE
    /\ target_ekg_params = NotCalled
    /\ last_call = <<"__init__", "ok">>
    /\ setter_calls = 0
    /\ appended_samples = << >>

NextPartial == Resolve

SpecPartial == InitPartial /\ [][NextPartial]_vars

---------------------------------------------------------------------------
(* The shaper on its own: get_ekg_segment called once, for one tick's       *)
(* duration, with the shaping fields of a dictionary drawn from             *)
(* ShaperInputs.                                                            *)

ShaperInputs ==
    { [InitialPhysiologicalState EXCEPT
           !.st_depression_mv        = dep,
           !.st_elevation_mv         = elev,
           !.qrs_amplitude_factor    = qrs,
           !.t_wave_amplitude_factor = t,
           !.qt_duration_ms          = qt,
           !.pr_interval_ms          = pr,
           !.qrs_duration_ms         = qrsd,
           !.osborn_wave_present     = osborn] :
        dep \in {0, 10, 20}, elev \in {0, 20}, qrs \in {5, 10},
        t \in {5, 10, 15, 20, 25}, qt \in {440, 550}, pr \in {160, 280},
        qrsd \in {100, 140}, osborn \in BOOLEAN }

InitShaper ==
    /\ physiological_state \in ShaperInputs
    /\ resolve_input = physiological_state
    /\ total_simulation_time_seconds = 0
    /\ current_ekg_data = << >>
    /\ display_seconds = 10
    /\ max_buffer_duration_seconds = 11
    /\ initialized = FALSE
    /\ target_ekg_params = NotCalled
    /\ last_call = <<"__init__", "ok">>
    /\ setter_calls = 0
    /\ appended_samples = << >>

\* the call; its result is kept in current_ekg_data
Shape ==
    /\ last_call = <<"__init__", "ok">>
    /\ \E outcome \in GeneratorOutcomes, slope \in RawSlopes :
         IF outcome = "ok"
         THEN /\ current_ekg_data' = NewSegment(slope, physiological_state)
              /\ last_call' = <<"get_ekg_segment", "ok">>
         ELSE /\ current_ekg_data' = current_ekg_data
              /\ last_call' = <<"get_ekg_segment", outcome>>
    /\ UNCHANGED <<physiological_state, total_simulation_time_seconds,
                   display_seconds, max_buffer_duration_seconds, initialized,
                   resolve_input, target_ekg_params, setter_calls, appended_samples>>

NextShaper == Shape

SpecShaper == InitShaper /\ [][NextShaper]_vars

---------------------------------------------------------------------------
(* Vocabulary of the properties *)

\* the latest operation called the resolver on resolve_input
ResolverCalled == last_call[1] \in {"tick", "update_ekg_parameters"}

\* that call returned a dictionary
Returned == target_ekg_params.raised = "none"

\* the latest operation was a tick, and how it ended
TickEnded == last_call[1] = "tick"
TickCompleted == last_call = <<"tick", "ok">>
TickFailed == TickEnded /\ last_call[2] # "ok"

\* no rule after the shock tiers is triggered by s
NoOtherCondition(s) ==
    /\ ~s.tension_pneumothorax_present
    /\ ~(s.tbi_present /\ s.icp_mmhg > 20)
    /\ ~(s.blast_injury_present /\ s.coronary_age_suspected)
    /\ s.serum_k_meq_l <= 55
    /\ s.serum_ca_mg_dl >= 85
    /\ s.core_body_temperature_celsius >= 350
    /\ ~s.ketamine_active
    /\ ~s.morphine_active

Clamp(x, lo, hi) == Max(lo, Min(x, hi))

---------------------------------------------------------------------------
(* Properties *)

\* C1: a tick evaluated with blood_volume_percent in [91, 100] and no other
\* condition active resolves the target heart rate to the baseline
\* heart_rate_bpm and the ST depression to 0.
C1_TierOneKeepsBaseline ==
    ( /\ TickEnded
      /\ resolve_input.blood_volume_percent >= Percent(91)
      /\ resolve_input.blood_volume_percent <= Percent(100)
      /\ NoOtherCondition(resolve_input) )
    => ( /\ Returned
         /\ target_ekg_params.target_heart_rate = resolve_input.heart_rate_bpm
         /\ target_ekg_params.target_st_depression_mv = 0 )

\* C2: with tension pneumothorax present, whatever the other fields, resolve
\* returns QRS amplitude factor 0.5 and a heart rate of at least
\* max(120, the heart rate produced by the shock tier).
C2_PneumothoraxLowVoltage ==
    ( ResolverCalled /\ resolve_input.tension_pneumothorax_present )
    => ( /\ Returned
         /\ target_ekg_params.target_qrs_amplitude_factor = 5
         /\ HypovolemicShock(resolve_input).raised = "none"
         /\ 2 * target_ekg_params.target_heart_rate
              >= Max(2 * 120, HypovolemicShock(resolve_input).target_heart_rate_x2) )

\* C3: with TBI present and ICP above 20, whatever the other fields, resolve
\* returns a heart rate in [40, 55], T-wave factor 2.0 and QT 500 ms.
C3_CushingReflex ==
    ( /\ ResolverCalled
      /\ resolve_input.tbi_present
      /\ resolve_input.icp_mmhg > 20 )
    => ( /\ Returned
         /\ target_ekg_params.target_heart_rate \in 40..55
         /\ target_ekg_params.target_t_wave_amplitude_factor = 20
         /\ target_ekg_params.target_qt_duration_ms = 500 )

\* C4: with blast injury and suspected coronary AGE, whatever the other
\* fields, resolve returns ST elevation 0.2 mV, ST depression 0 and a heart
\* rate of at least 110.
C4_BlastStElevation ==
    ( /\ ResolverCalled
      /\ resolve_input.blast_injury_present
      /\ resolve_input.coronary_age_suspected )
    => ( /\ Returned
         /\ target_ekg_params.target_st_elevation_mv = 20
         /\ target_ekg_params.target_st_depression_mv = 0
         /\ target_ekg_params.target_heart_rate >= 110 )

\* C5: with serum potassium 8.0 mEq/L, resolve returns PR 300 ms, QRS
\* duration 160 ms and a heart rate of at most 60.
C5_SevereHyperkalemia ==
    ( ResolverCalled /\ resolve_input.serum_k_meq_l = 80 )
    => ( /\ Returned
         /\ target_ekg_params.target_pr_interval_ms = 300
         /\ target_ekg_params.target_qrs_duration_ms = 160
         /\ target_ekg_params.target_heart_rate <= 60 )

\* C6: for every state the resolved heart rate is
\* clamp(H + 20 [ketamine] - 15 [morphine], 30, 250), H being the heart rate
\* the earlier rules produced, and so lies in [30, 250].
C6_DrugsThenClamp ==
    ResolverCalled
    => ( /\ Returned
         /\ LET H == BeforeDrugs(resolve_input).target_heart_rate
                k == IF resolve_input.ketamine_active THEN 20 ELSE 0
                m == IF resolve_input.morphine_active THEN 15 ELSE 0
            IN  target_ekg_params.target_heart_rate = Clamp(H + k - m, 30, 250)
         /\ target_ekg_params.target_heart_rate \in 30..250 )

\* C7: on the default state with blood_volume_percent = 55, resolve returns a
\* heart rate in [baseline * 1.4, 220], ST depression 0.2 mV and QRS
\* amplitude factor 1.0.
C7_SevereShockScenario ==
    ( /\ ResolverCalled
      /\ resolve_input = [InitialPhysiologicalState EXCEPT
                              !.blood_volume_percent = Percent(55)] )
    => ( /\ Returned
         /\ 10 * target_ekg_params.target_heart_rate >= 14 * resolve_input.heart_rate_bpm
         /\ target_ekg_params.target_heart_rate <= 220
         /\ target_ekg_params.target_st_depression_mv = 20
         /\ target_ekg_params.target_qrs_amplitude_factor = 10 )

\* C8: a tick that fails (the resolver or the waveform generation raises)
\* leaves blood_volume_percent, the elapsed time, every other state field and
\* the signal buffer at their values from before the tick.
C8_FailedTickChangesNothing ==
    [][ TickFailed'
        => ( /\ physiological_state' = physiological_state
             /\ total_simulation_time_seconds' = total_simulation_time_seconds
             /\ current_ekg_data' = current_ekg_data ) ]_vars

\* the clinical inputs other than blood volume and heart rate
OtherClinicalInputs ==
    { "tension_pneumothorax_present", "tbi_present", "icp_mmhg",
      "blast_injury_present", "coronary_age_suspected", "serum_k_meq_l",
      "serum_ca_mg_dl", "core_body_temperature_celsius", "ketamine_active",
      "morphine_active" }

\* the tick ends before the first threshold of the scenario script (15 s)
ScriptAside == ~Elapsed(total_simulation_time_seconds', 15)

\* C9 as stated: a tick, the scenario script aside, leaves every clinical
\* input unchanged, blood_volume_percent and heart_rate_bpm in particular.
C9_TickLeavesInputsUnchanged ==
    [][ (TickEnded' /\ ScriptAside)
        => ( /\ \A f \in OtherClinicalInputs :
                    physiological_state'[f] = physiological_state[f]
             /\ physiological_state'.blood_volume_percent
                    = physiological_state.blood_volume_percent
             /\ physiological_state'.heart_rate_bpm
                    = physiological_state.heart_rate_bpm ) ]_vars

\* C9 as amended: a tick, the scenario script aside, leaves every clinical
\* input unchanged except blood_volume_percent, which it lowers by 0.05
\* while above 40, and heart_rate_bpm, which a tick whose resolver call
\* returns overwrites with the resolved target heart rate.
C9_TickChangesVolumeAndRate ==
    [][ (TickEnded' /\ ScriptAside)
        => ( /\ \A f \in OtherClinicalInputs :
                    physiological_state'[f] = physiological_state[f]
             /\ physiological_state'.blood_volume_percent
                    = IF physiological_state.blood_volume_percent > Percent(40)
                      THEN physiological_state.blood_volume_percent - 1
                      ELSE physiological_state.blood_volume_percent
             /\ physiological_state'.heart_rate_bpm
                    = IF Returned' THEN target_ekg_params'.target_heart_rate
                      ELSE physiological_state.heart_rate_bpm ) ]_vars

\* C9 witness: a completed tick lowered the blood volume and replaced the
\* heart rate it resolved against
C9_Witness ==
    /\ TickCompleted
    /\ physiological_state.heart_rate_bpm # resolve_input.heart_rate_bpm
    /\ physiological_state.heart_rate_bpm = target_ekg_params.target_heart_rate
    /\ physiological_state.blood_volume_percent < Percent(100)

\* C10: resolve called twice on the same unchanged state with no hypovolemic
\* tier active returns identical ShapingParameters both times.
C10_ResolveTwiceSame ==
    ( ResolverCalled /\ resolve_input.blood_volume_percent > Percent(90) )
    => ( /\ Returned
         /\ update_ekg_parameters(resolve_input).raised = "none"
         /\ update_ekg_parameters(resolve_input) = target_ekg_params )

\* C11: update_ekg_parameters does not change the dictionary it is given:
\* after the call, whether it returned or raised, every field of the
\* dictionary has the value it had before the call.
C11_ResolveLeavesState ==
    (last_call[1] = "update_ekg_parameters")
    => ( /\ DOMAIN physiological_state = DOMAIN resolve_input
         /\ \A f \in DOMAIN resolve_input :
                physiological_state[f] = resolve_input[f] )

\* C11 witness: the call returned a heart rate other than the one in the
\* dictionary, and the dictionary still holds its own
C11_Witness ==
    /\ last_call = <<"update_ekg_parameters", "none">>
    /\ target_ekg_params.target_heart_rate # resolve_input.heart_rate_bpm
    /\ physiological_state.heart_rate_bpm = resolve_input.heart_rate_bpm

\* the bound the buffer is documented to have, in samples
BufferBound == (display_seconds + 1) * sampling_rate

\* the newest n elements of a sequence, all of it when it has no more than n
MostRecent(seq, n) ==
    IF Len(seq) <= n THEN seq ELSE SubSeq(seq, Len(seq) - n + 1, Len(seq))

\* C12: the buffer is the concatenation, in order, of everything appended so
\* far while that is no longer than (display_seconds + 1) * sampling_rate
\* samples, and otherwise exactly the most recent that many samples; its
\* length never exceeds the bound.
C12_BufferKeepsMostRecent ==
    /\ Len(current_ekg_data) <= BufferBound
    /\ current_ekg_data = MostRecent(appended_samples, BufferBound)

\* C12 witness: a tick appended to a full buffer, so that old samples of
\* either sign were dropped
C12_Witness ==
    /\ TickCompleted
    /\ Len(appended_samples) > BufferBound
    /\ Len(current_ekg_data) = BufferBound
    /\ appended_samples[1] # appended_samples[BufferBound + 1]

\* C13: the window get_latest_ekg_data returns is the most recent
\* display_seconds * sampling_rate samples of the buffer, in order, or the
\* entire buffer when it holds fewer than that (an empty sequence when there
\* is nothing to show).
C13_WindowIsMostRecent ==
    TickCompleted
    => LatestEkgData(current_ekg_data, display_seconds)
         = MostRecent(current_ekg_data, display_seconds * sampling_rate)

\* C14: after every tick the ST elevation and the ST depression are never
\* both non-zero: whenever the ST elevation is greater than 0 the ST
\* depression is 0, and when blast injury with suspected AGE is not active
\* the ST elevation is 0 and the depression set by the shock tier is the one
\* resolved.
C14_ElevationExcludesDepression ==
    TickEnded
    => ( /\ ~( physiological_state.st_elevation_mv # 0
               /\ physiological_state.st_depression_mv # 0 )
         /\ physiological_state.st_elevation_mv > 0
              => physiological_state.st_depression_mv = 0
         /\ ~BlastWithAge(resolve_input)
              => ( /\ physiological_state.st_elevation_mv = 0
                   /\ Returned
                        => ( /\ target_ekg_params.target_st_elevation_mv = 0
                             /\ target_ekg_params.target_st_depression_mv
                                  = HypovolemicShock(resolve_input).target_st_depression_mv ) ) )

\* the dictionary s with every absent key set to its documented default,
\* which is the value the key has at construction
WithDefaults(s) ==
    [k \in StateFields |-> Get(s, k, InitialPhysiologicalState[k])]

\* C15: a missing state field is never fatal: for a dictionary with any
\* subset of its fields absent, update_ekg_parameters returns, and returns
\* the same targets as for the dictionary with those fields set to the
\* documented defaults.
C15_AbsentFieldsResolveAsDefaults ==
    ResolverCalled
    => ( /\ Returned
         /\ target_ekg_params = update_ekg_parameters(WithDefaults(resolve_input)) )

\* C16: blood_volume_percent stays within [0, 100] in every reachable state:
\* the setter stores an out-of-range argument clamped into the range, and no
\* sequence of setter calls and ticks takes the value outside it.
C16_BloodVolumeInRange ==
    /\ physiological_state.blood_volume_percent >= Percent(0)
    /\ physiological_state.blood_volume_percent <= Percent(100)

\* C16 witness: a tick ran on the volume the setter clamped up to 0, and
\* did not lower it
C16_Witness ==
    /\ TickEnded
    /\ setter_calls > 0
    /\ physiological_state.blood_volume_percent = Percent(0)

\* C17: update_ekg_parameters returns a complete set of the nine targets for
\* every dictionary, those without hypothermia included; without hypothermia
\* the returned PR interval and QRS duration are the values the hyperkalemia
\* rule left.
C17_ReturnsWithoutHypothermia ==
    ResolverCalled
    => ( /\ Returned
         /\ resolve_input.core_body_temperature_celsius >= 350
              => ( /\ target_ekg_params.target_pr_interval_ms
                        = BeforeHypothermia(resolve_input).target_pr_ms
                   /\ target_ekg_params.target_qrs_duration_ms
                        = BeforeHypothermia(resolve_input).target_qrs_ms ) )

\* the floors and the heart-rate cap of the hypothermia tier of a temperature
\* below 35.0
HypothermiaTier(temp) ==
    IF temp < 280 THEN [pr |-> 280, qrs |-> 140, qt |-> 550, hr |-> 40]
    ELSE IF temp < 320 THEN [pr |-> 240, qrs |-> 120, qt |-> 500, hr |-> 50]
    ELSE [pr |-> 220, qrs |-> 110, qt |-> 480, hr |-> 60]

\* the shock tier of s does not raise
ShockTierPasses(s) == HypovolemicShock(s).raised = "none"

\* C18: hypothermia only tightens: for a temperature below 35.0 (and a blood
\* volume on which the shock tier passes) the returned PR interval, QRS
\* duration and QT are the maximum of the target the earlier rules produced
\* and the tier floor, and the heart rate is the minimum of the current
\* target and 60 / 50 / 40, so that an interval an earlier rule raised is
\* never lowered.
C18_HypothermiaOnlyTightens ==
    ( /\ ResolverCalled
      /\ ShockTierPasses(resolve_input)
      /\ resolve_input.core_body_temperature_celsius < 350 )
    => LET earlier == BeforeHypothermia(resolve_input)
           tier == HypothermiaTier(resolve_input.core_body_temperature_celsius)
       IN  /\ Returned
           /\ target_ekg_params.target_pr_interval_ms = Max(earlier.target_pr_ms, tier.pr)
           /\ target_ekg_params.target_qrs_duration_ms = Max(earlier.target_qrs_ms, tier.qrs)
           /\ target_ekg_params.target_qt_duration_ms
                = Max(earlier.target_qt_duration_ms, tier.qt)
           /\ BeforeDrugs(resolve_input).target_heart_rate
                = Min(earlier.target_heart_rate, tier.hr)

\* C19: hypocalcemia only lengthens the QT relative to the target the
\* earlier rules left (500 when the TBI rule fired): with calcium below 7.0
\* the QT target becomes the maximum of that target and 520, with calcium in
\* [7.0, 8.5) the maximum of it and 480, and with calcium of 8.5 or more it
\* is unchanged; the rule never reduces the QT of an earlier rule.  (Stated
\* for a blood volume on which the shock tier passes.)
C19_HypocalcemiaOnlyLengthens ==
    ( ResolverCalled /\ ShockTierPasses(resolve_input) )
    => LET earlier == BeforeHypocalcemia(resolve_input).target_qt_duration_ms
           after == BeforeHypothermia(resolve_input).target_qt_duration_ms
           serum_ca == resolve_input.serum_ca_mg_dl
       IN  /\ after = IF serum_ca < 70 THEN Max(earlier, 520)
                      ELSE IF serum_ca < 85 THEN Max(earlier, 480)
                      ELSE earlier
           /\ after >= earlier

\* C20: parameters follow the current state, not earlier ticks: when earlier
\* ticks ran with TBI and ICP above 20 and wrote their T-wave factor 2.0, the
\* TBI has since been cleared through set_tbi and no other condition is
\* active, the next tick resolves the T-wave factor 1.0 and the QT 440 ms.
C20_ClearedConditionResolvesBaseline ==
    [][ ( /\ total_simulation_time_seconds'
                = total_simulation_time_seconds + simulation_time_step_tenths
          /\ physiological_state.t_wave_amplitude_factor = 20
          /\ ~physiological_state.tbi_present
          /\ NoOtherCondition(resolve_input')
          /\ resolve_input'.blood_volume_percent > Percent(90) )
        => ( /\ target_ekg_params'.raised = "none"
             /\ target_ekg_params'.target_t_wave_amplitude_factor = 10
             /\ target_ekg_params'.target_qt_duration_ms = 440 ) ]_vars

\* the sample the shaper is documented to produce from a raw sample, in
\* 1/1000000 mV: raw * qrs factor * (1 + (T factor - 1) * 0.1) + offset
DocumentedSample(raw, s) ==
    raw * s.qrs_amplitude_factor * (100 + (s.t_wave_amplitude_factor - 10))
      + ( IF s.st_elevation_mv > 0 THEN s.st_elevation_mv * 10000
          ELSE IF s.st_depression_mv > 0 THEN 0 - s.st_depression_mv * 10000
          ELSE 0 )

\* C21: every sample get_ekg_segment returns is
\* raw * qrs_amplitude_factor * (1 + (t_wave_amplitude_factor - 1) * 0.1)
\* + offset, the offset being +st_elevation_mv when the elevation is above
\* 0, otherwise -st_depression_mv when the depression is above 0, otherwise
\* 0; the QT, PR and QRS-duration targets and the Osborn flag change no
\* sample.
C21_ShaperFormula ==
    (last_call = <<"get_ekg_segment", "ok">>)
    => \E slope \in RawSlopes :
         LET raw == RawSegment(slope, NumSamples(simulation_time_step_tenths))
         IN  /\ Len(current_ekg_data) = Len(raw)
             /\ \A i \in 1..Len(raw) :
                    current_ekg_data[i] = DocumentedSample(raw[i], physiological_state)

\* C21 witness: a segment was shaped with a QRS factor, a T-wave factor, an
\* elevation and a depression other than the neutral ones, and with interval
\* targets and Osborn flag other than the baseline
C21_Witness ==
    /\ last_call = <<"get_ekg_segment", "ok">>
    /\ physiological_state.qrs_amplitude_factor = 5
    /\ physiological_state.t_wave_amplitude_factor = 25
    /\ physiological_state.st_elevation_mv > 0
    /\ physiological_state.st_depression_mv > 0
    /\ physiological_state.qt_duration_ms = 550
    /\ physiological_state.osborn_wave_present
    /\ current_ekg_data[1] = 142500

\* C22: in a run driven by the scenario script alone every scripted condition
\* is applied once the elapsed time has passed its threshold: tension
\* pneumothorax after 15 s, TBI with ICP 30 after 30 s, blast injury with
\* suspected AGE after 45 s, then hyperkalemia (60 s), hypocalcemia (90 s),
\* hypothermia (120 s), ketamine (150 s) and morphine (170 s).
C22_ScriptAppliesEveryCondition ==
    LET t == total_simulation_time_seconds
        s == physiological_state
    IN  /\ Elapsed(t, 15) => s.tension_pneumothorax_present
        /\ Elapsed(t, 30) => (s.tbi_present /\ s.icp_mmhg = 30)
        /\ Elapsed(t, 45) => (s.blast_injury_present /\ s.coronary_age_suspected)
        /\ Elapsed(t, 60) => s.serum_k_meq_l > 40
        /\ Elapsed(t, 90) => s.serum_ca_mg_dl < 95
        /\ Elapsed(t, 120) => s.core_body_temperature_celsius < 370
        /\ (Elapsed(t, 150) /\ ~Elapsed(t, 165)) => s.ketamine_active
        /\ Elapsed(t, 170) => s.morphine_active

\* the number of the three major-condition flags that are true in s
MajorConditions(s) ==
    Cardinality({ f \in { "tension_pneumothorax_present", "tbi_present",
                          "blast_injury_present" } : s[f] })

\* C23: in a run driven by the scenario script alone, at most one of
\* tension_pneumothorax_present, tbi_present and blast_injury_present is
\* true in every reachable state, and ketamine_active and morphine_active
\* are never both true.
C23_ScriptConditionsExclusive ==
    /\ MajorConditions(physiological_state) <= 1
    /\ ~(physiological_state.ketamine_active /\ physiological_state.morphine_active)

\* C23 witness: the pneumothorax step has fired and the thresholds of the
\* TBI, blast and drug steps have all passed
C23_Witness ==
    /\ TickEnded
    /\ physiological_state.tension_pneumothorax_present
    /\ Elapsed(total_simulation_time_seconds, 170)

\* C24: whatever heart_rate_bpm the dictionary holds, the heart rate
\* update_ekg_parameters computes, and returns when it returns, is at most
\* 240: the rate is capped at 220 before the drug step and only ketamine
\* (+20) raises it afterwards, so the upper bound 250 of the final clamp is
\* never the binding limit.
C24_HeartRateAtMost240 ==
    ResolverCalled
    => ( /\ ShockTierPasses(resolve_input)
              => ( /\ BeforeDrugs(resolve_input).target_heart_rate <= 220
                   /\ DrugEffects(resolve_input, BeforeDrugs(resolve_input)).target_heart_rate
                        <= 240 )
         /\ Returned
              => ( /\ target_ekg_params.target_heart_rate <= 240
                   /\ target_ekg_params.target_heart_rate
                        = DrugEffects(resolve_input,
                                      BeforeDrugs(resolve_input)).target_heart_rate ) )

\* C24 witness: a dictionary holding a heart rate above the cap, with
\* ketamine active, for which the call returned and only the hypothermia
\* tier kept the rate low
C24_Witness ==
    /\ ResolverCalled
    /\ Returned
    /\ resolve_input.heart_rate_bpm > 220
    /\ resolve_input.ketamine_active
    /\ ~resolve_input.morphine_active
    /\ target_ekg_params.target_heart_rate = 60 + ketamine_effect_hr_increase

=============================================================================
